---- MODULE Spec2Model ----
(***************************************************************************)
(* Block-streaming DSP pipeline of RustAudioPlayground: the controller     *)
(* (AudioAppManager / AudioApp), the playback sessions it starts           *)
(* (DspProcessor: sink, driver thread) and the Block Streamer              *)
(* (BlockProcessor) that the audio thread pulls samples from.              *)
(*                                                                         *)
(* Samples are identified by their 1-based position in the decoded source. *)
(* A block is the contiguous run block_start+1 .. block_start+block_len of *)
(* the source, tagged block_xf when process_fn has been applied to it; the *)
(* pluggable process_fn itself is left uninterpreted.                      *)
(***************************************************************************)
EXTENDS Integers, Sequences, FiniteSets, TLC

\* ------------------------------------------------------------------ bounds
MaxBlocks == 2        \* full blocks in the longest source of the streamer runs
PartialLen == 1808    \* length of the trailing partial run (10000 = 2*4096 + 1808)
NumParams == 2        \* parameters registered by the module (add_param calls)
MaxParamVal == 1      \* parameter values are 0..MaxParamVal
MaxLen == 1           \* samples in the longest file the controller plays
MaxSessions == 2      \* DspProcessors created in one run
MaxApps == 2          \* AudioApps built in one run
MaxUiEvents == 2      \* clicks and edits the user makes in one run
MaxIters == 1         \* driver loop iterations whose time accounting is followed
MaxTick == 1          \* longest measured dsp_start.elapsed(), in sample periods
GainDen == 2          \* gains are the multiples of 1/GainDen the slider can show
MaxBuf == 2           \* samples in the longest buffer of edge samples given to the gain

\* ------------------------------------------------------- program constants
\* audio_app.rs:132  let available_block_sizes = vec![1024, 2048, 4096, 8192, 16384];
available_block_sizes == {1024, 2048, 4096, 8192, 16384}
\* audio_app.rs:133  let selected_block_size = 4096;
DefaultBlockSize == 4096
\* dsp.rs:95  let sample_rate = 48000.0;
SampleRate == 48000
\* gain_control/mod.rs:17  .clamp(i16::MIN as f32, i16::MAX as f32) as i16
Int16Min == -32768
Int16Max == 32767
\* gain_control/mod.rs:55  .add_param("Gain", ParamValue::Number(1.0), 0.0, 2.0)
MaxGain == 2

ParamValues == 0..MaxParamVal

Min(a, b) == IF a < b THEN a ELSE b

VARIABLES
    is_playing,     \* AudioApp.is_playing, one shared flag per AudioApp
    bypass,         \* AudioApp.bypass, one shared flag per AudioApp
    params,         \* AudioApp.params: per AudioApp, the values of its parameters
    bp,             \* BlockProcessor of every session
    sink,           \* rodio Sink / OutputStream of every session
    drv,            \* driver thread spawned by DspProcessor::process
    app,            \* the controller's own fields of every AudioApp built so far
    current_audio_app,  \* AudioAppManager.current_audio_app (0: None)
    ctl,            \* where the controller (UI thread) is inside load_audio
    store_hist,     \* per AudioApp, every content its parameter store has had
    ui_events,      \* number of clicks and edits handled so far
    acct,           \* per driver thread: its total_elapsed / processing_time locals
    cpu_usage,      \* AudioAppManager.cpu_usage, the value shared with every driver
    gc,             \* a buffer handed to the Gain Control module's process_fn
    mutex           \* owner of every Mutex, and where each context is between its locks

vars == <<is_playing, bypass, params, bp, sink, drv, app, current_audio_app, ctl,
          store_hist, ui_events, acct, cpu_usage, gc, mutex>>

ctlVars == <<app, current_audio_app, ctl, store_hist, ui_events>>

\* ------------------------------------------------------------ BlockProcessor
\* The sample rates and channel counts of the files that are decoded.
SampleRates == {44100, SampleRate}
ChannelCounts == {1, 2}

\* BlockProcessor::new: empty block, block_pos 0, samples_processed 0; input is
\* the decoded source: input_len samples, input_pos of them pulled, with its
\* sample_rate and channels (44100 Hz stereo unless stated otherwise).
\* yielded, in_order, xf_out, inv_sizes, inv_params, ret, drained, bypass_seen,
\* bypassed, stop_k and last record what the streamer has done so far.
NewBlockProcessor(a, len, size) ==
    [app |-> a, input_len |-> len, input_pos |-> 0, block_size |-> size,
     sample_rate |-> 44100, channels |-> 2,
     block_start |-> 0, block_len |-> 0, block_xf |-> FALSE, block_pos |-> 0,
     samples_processed |-> 0, pc |-> "ready", snap |-> <<>>,
     ret |-> "-", drained |-> FALSE, yielded |-> 0, in_order |-> TRUE,
     xf_out |-> 0, inv_sizes |-> <<>>, inv_params |-> <<>>,
     bypass_seen |-> FALSE, bypassed |-> 0, stop_k |-> 0,
     last |-> [idx |-> 0, xf |-> FALSE, live |-> FALSE]]

\* Source for the upstream decoder: sample_rate(), channels(), the samples left
\* in the current frame (here: in the file), the duration of the whole file as
\* a number of samples and the samples played per second.
InputSampleRate(b) == b.sample_rate
InputChannels(b) == b.channels
InputCurrentFrameLen(b) == b.input_len - b.input_pos
InputTotalDuration(b) ==
    [samples |-> b.input_len, per_second |-> b.sample_rate * b.channels]

\* A streamer that reports the rate the driver assumes, not the rate of its source.
BPSampleRateAssumed(b) == SampleRate

\* impl Source for BlockProcessor: every method forwards to self.input
BPSampleRate(b) == InputSampleRate(b)
BPChannels(b) == InputChannels(b)
BPCurrentFrameLen(b) == InputCurrentFrameLen(b)
BPTotalDuration(b) == InputTotalDuration(b)

\* A streamer that never looks at is_playing.
StopIgnored(b) == FALSE

\* A streamer that honours a stop only once the current block is used up.
StoppedAtBlockEnd(b) == ~is_playing[b.app] /\ b.block_pos >= b.block_len

\* next(): if !self.is_playing.load(SeqCst) { return None; }
PlaybackStopped(b) == ~is_playing[b.app]

\* A streamer that never looks at the bypass flag.
BypassIgnored(b) == FALSE

\* process_buffer(): if self.bypass.load(SeqCst) { return; }
BypassActive(b) == bypass[b.app]

\* A streamer that throws the trailing partial block away.
FillCountDropPartial(b) ==
    IF b.input_len - b.input_pos < b.block_size THEN 0 ELSE b.block_size

\* A streamer whose fill loop runs once too often (0..=block_size).
FillCountInclusive(b) == Min(b.block_size + 1, b.input_len - b.input_pos)

\* next(): for _ in 0..self.block_size { if let Some(s) = self.input.next() { push } else { break } }
FillCount(b) == Min(b.block_size, b.input_len - b.input_pos)

\* next(): self.block = new_block;  followed by the bypass load of process_buffer
Fill(b, n) ==
    [b EXCEPT !.block_start = b.input_pos, !.block_len = n, !.block_xf = FALSE,
              !.input_pos = b.input_pos + n,
              !.bypass_seen = BypassActive(b)]

\* A streamer that decides per sample, at yield time, whether it is transformed.
SampleAtLive(b) ==
    [idx |-> b.block_start + b.block_pos + 1, xf |-> ~bypass[b.app],
     live |-> bypass[b.app]]

\* next(): let sample = self.block[self.block_pos];
SampleAt(b) ==
    [idx |-> b.block_start + b.block_pos + 1, xf |-> b.block_xf,
     live |-> bypass[b.app]]

\* next(): if self.block_pos < self.block.len() { ...; self.block_pos += 1; Some(sample) }
Emit(b) ==
    LET smp == SampleAt(b)
    IN [b EXCEPT !.block_pos = b.block_pos + 1, !.ret = "Some", !.pc = "ready",
                 !.yielded = b.yielded + 1, !.last = smp,
                 !.in_order = b.in_order /\ smp.idx = b.yielded + 1,
                 !.xf_out = b.xf_out + (IF smp.xf THEN 1 ELSE 0)]

\* next(): return None;
ReturnNone(b) == [b EXCEPT !.ret = "None", !.drained = TRUE]

\* A streamer that hands process_fn the live parameters instead of the clones.
TransformLive(b) ==
    [b EXCEPT !.block_xf = TRUE, !.block_pos = 0,
              !.samples_processed = b.samples_processed + b.block_len,
              !.inv_sizes = Append(b.inv_sizes, b.block_len),
              !.inv_params = params[b.app]]

\* process_buffer(): (self.process_fn)(&mut self.block, &param_values);
\*                   self.samples_processed += self.block.len();   then block_pos = 0
Transform(b) ==
    [b EXCEPT !.block_xf = TRUE, !.block_pos = 0,
              !.samples_processed = b.samples_processed + b.block_len,
              !.inv_sizes = Append(b.inv_sizes, b.block_len),
              !.inv_params = b.snap]

\* A streamer that refills while the last sample of the block is still to come.
BlockExhaustedEarly(b) == b.block_pos + 1 >= b.block_len

\* next(): if self.block_pos >= self.block.len() { ...refill... }
BlockExhausted(b) == b.block_pos >= b.block_len

\* One call of next() up to its first return or to the parameter snapshot.
NextBegin(b) ==
    IF PlaybackStopped(b) THEN ReturnNone(b)
    ELSE IF BlockExhausted(b)
         THEN LET n == FillCount(b)
              IN IF n = 0 THEN ReturnNone(b)
                 ELSE IF BypassActive(b)
                      THEN Emit([Fill(b, n) EXCEPT !.block_pos = 0,
                                                   !.bypassed = b.bypassed + 1])
                      ELSE [Fill(b, n) EXCEPT !.pc = "snap", !.snap = <<>>, !.ret = "-"]
         ELSE Emit(b)

\* process_buffer(): self.params.iter().map(|p| p.lock().unwrap().clone()), one
\* parameter per step, each under its own lock.
BPSnap(s) ==
    /\ bp[s].pc = "snap"
    /\ LET b == bp[s]
           i == Len(b.snap) + 1
       IN bp' = [bp EXCEPT ![s] =
                    [b EXCEPT !.snap = Append(b.snap, params[b.app][i]),
                              !.pc = IF i = NumParams THEN "xform" ELSE "snap"]]
    /\ UNCHANGED <<mutex, acct, cpu_usage, gc, is_playing, bypass, params, sink, drv, ctlVars>>

\* process_buffer(): the process_fn call and, back in next(), the first yield.
BPXform(s) ==
    /\ bp[s].pc = "xform"
    /\ bp' = [bp EXCEPT ![s] = Emit(Transform(bp[s]))]
    /\ UNCHANGED <<mutex, acct, cpu_usage, gc, is_playing, bypass, params, sink, drv, ctlVars>>

\* What a store of v to is_playing of AudioApp a leaves in stop_k of its streamers:
\* on a store of false, the number of transformation invocations started so far.
MarkStop(a, v) ==
    [s \in 1..Len(bp) |->
        IF bp[s].app = a /\ ~v
        THEN [bp[s] EXCEPT !.stop_k = Len(bp[s].inv_sizes)
                                      + (IF bp[s].pc = "ready" THEN 0 ELSE 1)]
        ELSE bp[s]]

\* ------------------------------------------------- streamer run on its own
\* The consumer of the Iterator calls next() whenever no call is in progress.
ConsumerNext(s) ==
    /\ bp[s].pc = "ready"
    /\ bp' = [bp EXCEPT ![s] = NextBegin(bp[s])]
    /\ UNCHANGED <<mutex, acct, cpu_usage, gc, is_playing, bypass, params, sink, drv, ctlVars>>

\* The lengths of the sources the streamer is run on.
SourceLens(size) == {k * size + r : k \in {0, MaxBlocks}, r \in {0, PartialLen}}

\* AudioAppBuilder::add_param: every parameter starts at its registered value.
InitialParams == [i \in 1..NumParams |-> 0]

\* AudioApp::new: no session, the default block size; file: a playable file was found.
\* size_changed tells that the Block Size dropdown has been used on this AudioApp.
NewApp(file) ==
    [selected_file |-> file, selected_block_size |-> DefaultBlockSize,
     dsp_processor |-> 0, size_changed |-> FALSE]

Idle == [pc |-> "idle", new |-> 0]

\* process(): let mut total_elapsed = 0.0; let mut processing_time = 0.0;
\* Both are counted in sample periods (1 / SampleRate seconds). iters counts the
\* loop iterations, all_bypassed tells that each of them has read bypass as true.
NewAcct == [iters |-> 0, total_elapsed |-> 0, processing_time |-> 0,
            all_bypassed |-> TRUE]

\* AudioAppManager::new: cpu_usage: Arc::new(Mutex::new(0.0)). The value is the
\* fraction num / den; writer is the session whose driver stored it (0: nobody).
InitialCpuUsage == [num |-> 0, den |-> 1, writer |-> 0]

\* No buffer has been handed to the Gain Control module: input is the buffer as
\* it is passed in, buffer what process_fn leaves in it, state the parameter
\* values passed along.
NoGain == [input |-> <<>>, buffer |-> <<>>, state |-> <<>>, done |-> FALSE]

NoSink == [stopped |-> FALSE, pending |-> FALSE, alive |-> FALSE, stop_called |-> FALSE]

\* No Mutex is locked: the sink (Arc<Mutex<Sink>>), the published percentage
\* (Arc<Mutex<f32>>) and every parameter value (Arc<Mutex<ParamValue>>) are free;
\* the controller is between two frames and the driver has cloned no parameter.
NoLocks ==
    [sink |-> "none", cpu_usage |-> "none", param |-> [i \in 1..NumParams |-> "none"],
     ui_pc |-> "idle", ui_i |-> 0, drv_i |-> 0]

InitStream ==
    /\ is_playing = <<TRUE>>
    /\ bypass \in {<<FALSE>>, <<TRUE>>}
    /\ params = <<InitialParams>>
    /\ \E size \in available_block_sizes : \E len \in SourceLens(size) :
        \E rate \in SampleRates : \E ch \in ChannelCounts :
          bp = <<[NewBlockProcessor(1, len, size) EXCEPT !.sample_rate = rate,
                                                        !.channels = ch]>>
    /\ sink = <<NoSink>>
    /\ drv = <<"none">>
    /\ app = <<NewApp(TRUE)>>
    /\ current_audio_app = 1
    /\ ctl = Idle
    /\ store_hist = <<{InitialParams}>>
    /\ ui_events = 0
    /\ acct = <<NewAcct>>
    /\ cpu_usage = InitialCpuUsage
    /\ gc = NoGain
    /\ mutex = NoLocks

NextStream == \E s \in 1..Len(bp) : ConsumerNext(s) \/ BPSnap(s) \/ BPXform(s)

SpecStream == InitStream /\ [][NextStream]_vars

\* ------------------------------------------- streamer with live flag writes
\* is_playing.store(v): Stop button and DspProcessor::stop (false), load_audio (true).
StoreIsPlaying(a, v) ==
    /\ is_playing[a] # v
    /\ is_playing' = [is_playing EXCEPT ![a] = v]
    /\ bp' = MarkStop(a, v)
    /\ UNCHANGED <<mutex, acct, cpu_usage, gc, bypass, params, sink, drv, ctlVars>>

\* self.bypass.store(bypass) of the Bypass checkbox.
StoreBypass(a, v) ==
    /\ bypass[a] # v
    /\ bypass' = [bypass EXCEPT ![a] = v]
    /\ UNCHANGED <<mutex, acct, cpu_usage, gc, is_playing, params, bp, sink, drv, ctlVars>>

InitEnv ==
    /\ is_playing = <<TRUE>>
    /\ bypass = <<FALSE>>
    /\ params = <<InitialParams>>
    /\ \E size \in available_block_sizes :
        \E len \in {PartialLen}
                    \cup (IF size = DefaultBlockSize
                          THEN {MaxBlocks * size + PartialLen} ELSE {}) :
          bp = <<NewBlockProcessor(1, len, size)>>
    /\ sink = <<NoSink>>
    /\ drv = <<"none">>
    /\ app = <<NewApp(TRUE)>>
    /\ current_audio_app = 1
    /\ ctl = Idle
    /\ store_hist = <<{InitialParams}>>
    /\ ui_events = 0
    /\ acct = <<NewAcct>>
    /\ cpu_usage = InitialCpuUsage
    /\ gc = NoGain
    /\ mutex = NoLocks

NextEnv ==
    \/ \E s \in 1..Len(bp) : ConsumerNext(s) \/ BPSnap(s) \/ BPXform(s)
    \/ \E a \in 1..Len(is_playing) : \E v \in BOOLEAN : StoreIsPlaying(a, v)
    \/ \E a \in 1..Len(bypass) : \E v \in BOOLEAN : StoreBypass(a, v)

SpecEnv == InitEnv /\ [][NextEnv]_vars

\* ---------------------------------------------------------------- controller
\* DspProcessor::new: Sink::try_new on a fresh OutputStream; sink.append(dsp_source).
NewSink == [stopped |-> FALSE, pending |-> TRUE, alive |-> TRUE, stop_called |-> FALSE]

\* DspProcessor::stop on session s: self.sink.lock().unwrap().stop()  (0: no session)
SinkStopped(s) ==
    [t \in 1..Len(sink) |->
        IF t = s THEN [sink[t] EXCEPT !.stopped = TRUE, !.stop_called = TRUE]
        ELSE sink[t]]

\* Dropping the DspProcessor of session s drops its OutputStream: the audio thread
\* of that stream stops pulling from its sink.  (0: no session)
StreamDropped(s) ==
    [t \in 1..Len(sink) |-> IF t = s THEN [sink[t] EXCEPT !.alive = FALSE] ELSE sink[t]]

\* One more click or edit reaches the controller between two of its handlers.
UiEvent ==
    /\ ctl.pc = "idle"
    /\ current_audio_app # 0
    /\ ui_events < MaxUiEvents
    /\ ui_events' = ui_events + 1

\* AudioAppManager::update -> initialize_current_app -> AudioAppBuilder::build:
\* AudioApp::new and, when a playable file was found, load_audio(first_file) up to
\* DspProcessor::new (a fresh AudioApp has no session to stop).
InitializeCurrentApp ==
    /\ ctl.pc = "idle"
    /\ current_audio_app = 0
    /\ Len(app) < MaxApps
    /\ \E file \in BOOLEAN :
          /\ file => Len(bp) < MaxSessions
          /\ app' = Append(app, NewApp(file))
          /\ ctl' = IF file THEN [pc |-> "la_new", new |-> 0] ELSE Idle
    /\ current_audio_app' = Len(app) + 1
    /\ is_playing' = Append(is_playing, FALSE)
    /\ bypass' = Append(bypass, FALSE)
    /\ params' = Append(params, InitialParams)
    /\ store_hist' = Append(store_hist, {InitialParams})
    /\ UNCHANGED <<mutex, acct, cpu_usage, gc, bp, sink, drv, ui_events>>

\* Play button -> load_audio, first statement:
\* if let Some(ref dsp) = self.dsp_processor { dsp.stop(); }
Play ==
    /\ UiEvent
    /\ app[current_audio_app].selected_file
    /\ Len(bp) < MaxSessions
    /\ LET a == current_audio_app
           old == app[a].dsp_processor
       IN /\ is_playing' = IF old # 0 THEN [is_playing EXCEPT ![a] = FALSE]
                           ELSE is_playing
          /\ bp' = IF old # 0 THEN MarkStop(a, FALSE) ELSE bp
          /\ sink' = SinkStopped(old)
    /\ ctl' = [pc |-> "la_new", new |-> 0]
    /\ UNCHANGED <<mutex, acct, cpu_usage, gc, bypass, params, drv, app, current_audio_app, store_hist>>

\* A load_audio that starts every session with the default block size.
SessionBlockSizeDefault(a) == DefaultBlockSize

\* load_audio: let block_size = self.selected_block_size;
SessionBlockSize(a) == app[a].selected_block_size

\* load_audio: DspProcessor::new(...) with the selected block size; the decoded
\* file has len samples; the BlockProcessor is appended to the new sink.
LoadNew ==
    /\ ctl.pc = "la_new"
    /\ \E len \in 0..MaxLen :
          bp' = Append(bp, NewBlockProcessor(current_audio_app, len,
                                SessionBlockSize(current_audio_app)))
    /\ sink' = Append(sink, NewSink)
    /\ drv' = Append(drv, "none")
    /\ acct' = Append(acct, NewAcct)
    /\ ctl' = [pc |-> "la_store", new |-> Len(bp) + 1]
    /\ UNCHANGED <<mutex, cpu_usage, gc, is_playing, bypass, params, app, current_audio_app, store_hist,
                   ui_events>>

\* load_audio: DspProcessor::new(...) when there is no output device or the file
\* cannot be opened or decoded: OutputStream::try_default().unwrap(),
\* Sink::try_new(..).unwrap(), File::open(..).expect(..), Decoder::new(..).expect(..)
\* panic on the UI thread; new returns Self, load_audio returns nothing.
LoadNewPanics ==
    /\ ctl.pc = "la_new"
    /\ ctl' = [pc |-> "panicked", new |-> 0]
    /\ UNCHANGED <<mutex, acct, cpu_usage, gc, is_playing, bypass, params, bp, sink, drv, app,
                   current_audio_app, store_hist, ui_events>>

\* load_audio: self.is_playing.store(true, Ordering::SeqCst);
LoadStore ==
    /\ ctl.pc = "la_store"
    /\ is_playing' = [is_playing EXCEPT ![current_audio_app] = TRUE]
    /\ ctl' = [ctl EXCEPT !.pc = "la_spawn"]
    /\ UNCHANGED <<mutex, acct, cpu_usage, gc, bypass, params, bp, sink, drv, app, current_audio_app, store_hist,
                   ui_events>>

\* load_audio: dsp_processor.process() spawns the driver thread;
\* self.dsp_processor = Some(dsp_processor) drops the previous DspProcessor.
LoadSpawn ==
    /\ ctl.pc = "la_spawn"
    /\ drv' = [drv EXCEPT ![ctl.new] = "start"]
    /\ sink' = StreamDropped(app[current_audio_app].dsp_processor)
    /\ app' = [app EXCEPT ![current_audio_app].dsp_processor = ctl.new]
    /\ ctl' = Idle
    /\ UNCHANGED <<mutex, acct, cpu_usage, gc, is_playing, bypass, params, bp, current_audio_app, store_hist,
                   ui_events>>

\* Stop button: self.is_playing.store(false); if let Some(ref dsp) = ... { dsp.stop(); }
StopButton ==
    /\ UiEvent
    /\ is_playing' = [is_playing EXCEPT ![current_audio_app] = FALSE]
    /\ bp' = MarkStop(current_audio_app, FALSE)
    /\ sink' = SinkStopped(app[current_audio_app].dsp_processor)
    /\ UNCHANGED <<mutex, acct, cpu_usage, gc, bypass, params, drv, app, current_audio_app, ctl, store_hist>>

\* Bypass checkbox: self.bypass.store(bypass, Ordering::SeqCst) when it changed.
ToggleBypass ==
    /\ UiEvent
    /\ bypass' = [bypass EXCEPT ![current_audio_app] = ~bypass[current_audio_app]]
    /\ UNCHANGED <<mutex, acct, cpu_usage, gc, is_playing, params, bp, sink, drv, app, current_audio_app, ctl,
                   store_hist>>

\* Block Size dropdown: selectable_value(&mut self.selected_block_size, size, ..)
SelectBlockSize(size) ==
    /\ UiEvent
    /\ size # app[current_audio_app].selected_block_size
    /\ app' = [app EXCEPT ![current_audio_app].selected_block_size = size,
                          ![current_audio_app].size_changed = TRUE]
    /\ UNCHANGED <<mutex, acct, cpu_usage, gc, is_playing, bypass, params, bp, sink, drv, current_audio_app, ctl,
                   store_hist>>

\* Parameter editor: let mut value = param.value.lock().unwrap(); the slider or
\* checkbox writes through the guard; one parameter is locked at a time.
WriteParam(i, v) ==
    /\ UiEvent
    /\ params[current_audio_app][i] # v
    /\ LET a == current_audio_app
           new == [params[a] EXCEPT ![i] = v]
       IN /\ params' = [params EXCEPT ![a] = new]
          /\ store_hist' = [store_hist EXCEPT ![a] = @ \cup {new}]
    /\ UNCHANGED <<mutex, acct, cpu_usage, gc, is_playing, bypass, bp, sink, drv, app, current_audio_app, ctl>>

\* Switch button -> switch_module(index): self.current_audio_app = None drops the
\* AudioApp and with it its DspProcessor; nothing is stopped.
SwitchModule ==
    /\ UiEvent
    /\ Len(app) < MaxApps
    /\ current_audio_app' = 0
    /\ sink' = StreamDropped(app[current_audio_app].dsp_processor)
    /\ UNCHANGED <<mutex, acct, cpu_usage, gc, is_playing, bypass, params, bp, drv, app, ctl, store_hist>>

\* ------------------------------------ streamer with live parameter edits
MinBlockSize ==
    CHOOSE x \in available_block_sizes : \A y \in available_block_sizes : x <= y

\* One streamer on a source of one full block and one more sample, so that the
\* transformation is invoked twice, while the user edits the parameters.
InitSnap ==
    /\ is_playing = <<TRUE>>
    /\ bypass = <<FALSE>>
    /\ params = <<InitialParams>>
    /\ bp = <<NewBlockProcessor(1, MinBlockSize + 1, MinBlockSize)>>
    /\ sink = <<NoSink>>
    /\ drv = <<"none">>
    /\ app = <<NewApp(TRUE)>>
    /\ current_audio_app = 1
    /\ ctl = Idle
    /\ store_hist = <<{InitialParams}>>
    /\ ui_events = 0
    /\ acct = <<NewAcct>>
    /\ cpu_usage = InitialCpuUsage
    /\ gc = NoGain
    /\ mutex = NoLocks

NextSnap ==
    \/ \E s \in 1..Len(bp) : ConsumerNext(s) \/ BPSnap(s) \/ BPXform(s)
    \/ \E i \in 1..NumParams : \E v \in ParamValues : WriteParam(i, v)

SpecSnap == InitSnap /\ [][NextSnap]_vars

\* --------------------------------------------------------------- audio thread
\* The output stream of session s asks its sink for the next sample. A sink that
\* was told to stop drops the source at one of its periodic checks; otherwise it
\* calls next() on the BlockProcessor, and drops the source once next() returns
\* None. A dropped source leaves the sink empty.
AudioPoll(s) ==
    /\ sink[s].alive /\ sink[s].pending
    /\ bp[s].pc = "ready"
    /\ \/ /\ sink[s].stopped
          /\ sink' = [sink EXCEPT ![s].pending = FALSE]
          /\ bp' = bp
       \/ /\ bp' = [bp EXCEPT ![s] = NextBegin(bp[s])]
          /\ sink' = [sink EXCEPT ![s].pending = (bp'[s].ret # "None")]
    /\ UNCHANGED <<mutex, acct, cpu_usage, gc, is_playing, bypass, params, drv, ctlVars>>

\* -------------------------------------------------------------- driver thread
\* thread::spawn(move || { sink.lock().unwrap().play(); ...
DrvStart(s) ==
    /\ drv[s] = "start"
    /\ drv' = [drv EXCEPT ![s] = "check"]
    /\ UNCHANGED <<mutex, acct, cpu_usage, gc, is_playing, bypass, params, bp, sink, ctlVars>>

\* while is_playing.load(SeqCst) && !sink.lock().unwrap().empty()
LoopCondition(s) == is_playing[bp[s].app] /\ sink[s].pending

DrvCheck(s) ==
    /\ drv[s] = "check"
    /\ drv' = [drv EXCEPT ![s] = IF LoopCondition(s) THEN "body" ELSE "exit"]
    /\ UNCHANGED <<mutex, acct, cpu_usage, gc, is_playing, bypass, params, bp, sink, ctlVars>>

\* A driver that takes every block to have the default size.
BlockDurationAssumed(size) == DefaultBlockSize

\* let block_duration = block_size as f32 / sample_rate;
\* block_size / SampleRate seconds are block_size sample periods.
BlockDuration(size) == size

\* One loop iteration on the driver's locals: elapsed is what dsp_start.elapsed()
\* measured around the bypass test and the dummy process_fn call, byp the value
\* bypass.load() returned.
\*   processing_time += dsp_start.elapsed().as_secs_f32();
\*   total_elapsed += block_duration;
\* The locals are followed for MaxIters iterations and left alone afterwards.
Accumulate(a, size, elapsed, byp) ==
    IF a.iters >= MaxIters THEN a
    ELSE [iters |-> a.iters + 1,
          total_elapsed |-> a.total_elapsed + BlockDuration(size),
          processing_time |-> a.processing_time + elapsed,
          all_bypassed |-> a.all_bypassed /\ byp]

\* A driver that publishes the share of the block duration left unused.
CpuHeadroomOf(a) ==
    [num |-> (a.processing_time - a.total_elapsed) * 100, den |-> a.total_elapsed]

\* let dsp_cpu_usage = (processing_time / total_elapsed) * 100.0;
CpuUsageOf(a) == [num |-> a.processing_time * 100, den |-> a.total_elapsed]

\* loop body up to the sleep: the timed bypass test and dummy process_fn call,
\* the update of the locals, and  *cpu_usage.lock().unwrap() = dsp_cpu_usage
\* when total_elapsed > 0.0
DrvBody(s) ==
    /\ drv[s] = "body"
    /\ \E elapsed \in 0..MaxTick :
          LET a == Accumulate(acct[s], bp[s].block_size, elapsed, bypass[bp[s].app])
              c == CpuUsageOf(a)
          IN /\ acct' = [acct EXCEPT ![s] = a]
             /\ cpu_usage' = IF a.total_elapsed > 0
                             THEN [num |-> c.num, den |-> c.den, writer |-> s]
                             ELSE cpu_usage
    /\ drv' = [drv EXCEPT ![s] = "sleep"]
    /\ UNCHANGED <<mutex, gc, is_playing, bypass, params, bp, sink, ctlVars>>

\* thread::sleep(block duration - elapsed), then back to the loop condition
DrvSleep(s) ==
    /\ drv[s] = "sleep"
    /\ drv' = [drv EXCEPT ![s] = "check"]
    /\ UNCHANGED <<mutex, acct, cpu_usage, gc, is_playing, bypass, params, bp, sink, ctlVars>>

\* after the loop: sink.lock().unwrap().stop(); the thread ends
DrvExit(s) ==
    /\ drv[s] = "exit"
    /\ sink' = [sink EXCEPT ![s].stopped = TRUE]
    /\ drv' = [drv EXCEPT ![s] = "done"]
    /\ UNCHANGED <<mutex, acct, cpu_usage, gc, is_playing, bypass, params, bp, ctlVars>>

\* ------------------------------------------------- one session on its own
\* The state load_audio leaves behind: the BlockProcessor appended to a fresh
\* sink, is_playing stored true, the driver thread spawned; the bypass checkbox
\* may have been ticked before.
InitDriver ==
    /\ is_playing = <<TRUE>>
    /\ bypass \in {<<FALSE>>, <<TRUE>>}
    /\ params = <<InitialParams>>
    /\ \E size \in available_block_sizes : \E len \in 0..MaxLen :
          bp = <<NewBlockProcessor(1, len, size)>>
    /\ sink = <<NewSink>>
    /\ drv = <<"start">>
    /\ app = <<[NewApp(TRUE) EXCEPT !.dsp_processor = 1]>>
    /\ current_audio_app = 1
    /\ ctl = Idle
    /\ store_hist = <<{InitialParams}>>
    /\ ui_events = 0
    /\ acct = <<NewAcct>>
    /\ cpu_usage = InitialCpuUsage
    /\ gc = NoGain
    /\ mutex = NoLocks

\* The session's audio thread and driver thread, with is_playing and bypass
\* stored at any time.
NextDriver ==
    \/ \E s \in 1..Len(bp) : AudioPoll(s) \/ BPSnap(s) \/ BPXform(s)
    \/ \E s \in 1..Len(bp) : DrvStart(s) \/ DrvCheck(s) \/ DrvBody(s)
    \/ \E s \in 1..Len(bp) : DrvSleep(s) \/ DrvExit(s)
    \/ \E a \in 1..Len(is_playing) : \E v \in BOOLEAN : StoreIsPlaying(a, v)
    \/ \E a \in 1..Len(bypass) : \E v \in BOOLEAN : StoreBypass(a, v)

SpecDriver == InitDriver /\ [][NextDriver]_vars

\* ------------------------------------------------------ Gain Control module
\* enum ParamValue { Number(f32), Boolean(bool) }; a Number is the fraction num/den.
Number(n, d) == [kind |-> "Number", num |-> n, den |-> d]
Boolean(v) == [kind |-> "Boolean", num |-> IF v THEN 1 ELSE 0, den |-> 1]

Clamp(x, lo, hi) == IF x < lo THEN lo ELSE IF x > hi THEN hi ELSE x

\* f32 as i16: the fraction x/d (d > 0) loses its fractional part, toward zero.
TruncDiv(x, d) == IF x >= 0 THEN x \div d ELSE -((-x) \div d)

\* A gain whose cast wraps around instead of being clamped first.
GainSampleWrap(s, g) ==
    ((TruncDiv(s * g.num, g.den) - Int16Min) % (Int16Max - Int16Min + 1)) + Int16Min

\* (*sample as f32 * gain).clamp(i16::MIN as f32, i16::MAX as f32) as i16
GainSample(s, g) ==
    TruncDiv(Clamp(s * g.num, Int16Min * g.den, Int16Max * g.den), g.den)

\* GainControlProcessor::process: for sample in buffer.iter_mut() { *sample = .. }
GainProcess(buffer, g) == [i \in 1..Len(buffer) |-> GainSample(buffer[i], g)]

\* process_fn of GainControlModule::initialize:
\* gain = if let ParamValue::Number(v) = state.get(0).unwrap_or(&Number(1.0)) { *v } else { 1.0 }
GainOf(state) ==
    IF Len(state) >= 1 /\ state[1].kind = "Number" THEN state[1] ELSE Number(1, 1)

Int16 == Int16Min..Int16Max
EdgeSamples == {Int16Min, -3, -1, 0, 1, 3, Int16Max}

RECURSIVE SeqsUpTo(_, _)
SeqsUpTo(S, n) ==
    IF n = 0 THEN {<<>>}
    ELSE LET shorter == SeqsUpTo(S, n - 1)
         IN shorter \cup {Append(q, x) : q \in shorter, x \in S}

\* The buffers the gain is run on: every single 16-bit sample, and every run of
\* up to MaxBuf edge samples.
GainBuffers == {<<s>> : s \in Int16} \cup SeqsUpTo(EdgeSamples, MaxBuf)

\* The parameter values process_fn is called with: none, the Gain slider at a
\* multiple of 1/GainDen in 0.0..=2.0, or a Boolean in the first place.
GainStates ==
    {<<>>, <<Boolean(TRUE)>>}
       \cup {<<Number(n, GainDen)>> : n \in 0..(MaxGain * GainDen)}

InitGain ==
    /\ is_playing = <<>> /\ bypass = <<>> /\ params = <<>>
    /\ bp = <<>> /\ sink = <<>> /\ drv = <<>>
    /\ app = <<>> /\ current_audio_app = 0 /\ ctl = Idle /\ store_hist = <<>>
    /\ ui_events = 0
    /\ acct = <<>>
    /\ cpu_usage = InitialCpuUsage
    /\ mutex = NoLocks
    /\ \E b \in GainBuffers : \E st \in GainStates :
          gc = [input |-> b, buffer |-> b, state |-> st, done |-> FALSE]

\* One call of the module's process_fn on the buffer.
GainProcessFn ==
    /\ ~gc.done
    /\ gc' = [gc EXCEPT !.buffer = GainProcess(gc.buffer, GainOf(gc.state)),
                        !.done = TRUE]
    /\ UNCHANGED <<mutex, is_playing, bypass, params, bp, sink, drv, app,
                   current_audio_app, ctl, store_hist, ui_events, acct, cpu_usage>>

SpecGain == InitGain /\ [][GainProcessFn]_vars

\* AudioAppManager::update: let cpu_usage = *self.cpu_usage.lock().unwrap();
\* (DspProcessor::get_cpu_usage reads the same cell)
GetCpuUsage == [num |-> cpu_usage.num, den |-> cpu_usage.den]

\* AudioAppManager::new: no AudioApp yet; nothing has been played.
Init ==
    /\ is_playing = <<>> /\ bypass = <<>> /\ params = <<>>
    /\ bp = <<>> /\ sink = <<>> /\ drv = <<>>
    /\ app = <<>> /\ current_audio_app = 0 /\ ctl = Idle /\ store_hist = <<>>
    /\ ui_events = 0
    /\ acct = <<>>
    /\ cpu_usage = InitialCpuUsage
    /\ gc = NoGain
    /\ mutex = NoLocks

Controller ==
    \/ InitializeCurrentApp
    \/ Play
    \/ LoadNew
    \/ LoadNewPanics
    \/ LoadStore
    \/ LoadSpawn
    \/ StopButton
    \/ ToggleBypass
    \/ \E size \in available_block_sizes : SelectBlockSize(size)
    \/ \E i \in 1..NumParams : \E v \in ParamValues : WriteParam(i, v)
    \/ SwitchModule

Next ==
    \/ Controller
    \/ \E s \in 1..Len(bp) : AudioPoll(s)
    \/ \E s \in 1..Len(bp) : BPSnap(s)
    \/ \E s \in 1..Len(bp) : BPXform(s)
    \/ \E s \in 1..Len(bp) : DrvStart(s)
    \/ \E s \in 1..Len(bp) : DrvCheck(s)
    \/ \E s \in 1..Len(bp) : DrvBody(s)
    \/ \E s \in 1..Len(bp) : DrvSleep(s)
    \/ \E s \in 1..Len(bp) : DrvExit(s)

Spec == Init /\ [][Next]_vars

\* The steps of the audio thread and of the driver thread of session s.
AudioStep(s) == s <= Len(bp) /\ (AudioPoll(s) \/ BPSnap(s) \/ BPXform(s))
DriverStep(s) ==
    /\ s <= Len(bp)
    /\ DrvStart(s) \/ DrvCheck(s) \/ DrvBody(s) \/ DrvSleep(s) \/ DrvExit(s)

\* The program under a scheduler that lets every thread run: load_audio, once
\* entered, runs to its end; the output stream of a session keeps calling back
\* for as long as it lives; a spawned driver thread is not starved (its sleep is
\* finite, its locks are held briefly).
FairSpec ==
    /\ Spec
    /\ WF_vars(LoadNew \/ LoadStore \/ LoadSpawn)
    /\ \A s \in 1..MaxSessions : WF_vars(AudioStep(s)) /\ WF_vars(DriverStep(s))

\* ------------------------------------------------- the locks, step by step
\* The three contexts of one session, with Mutex::lock() and the drop of the
\* guard as separate steps: "ui" is the controller, "driver" the thread spawned
\* by process(), "audio" the output stream's thread inside next().
Contexts == {"ui", "driver", "audio"}

\* Number of guards context c is holding.
HeldCount(c) ==
    (IF mutex.sink = c THEN 1 ELSE 0) + (IF mutex.cpu_usage = c THEN 1 ELSE 0)
      + Cardinality({i \in 1..NumParams : mutex.param[i] = c})

\* An editor whose guard outlives the loop iteration that took it.
EditorGuardKept(i) == mutex

\* Parameter editor: `value` goes out of scope at the end of the body of
\* for param in &self.params { let mut value = param.value.lock().unwrap(); ... }
EditorGuardDropped(i) == [mutex EXCEPT !.param[i] = "none"]

\* eframe calls AudioAppManager::update for a new frame.
FrameBegin ==
    /\ mutex.ui_pc = "idle"
    /\ mutex' = [mutex EXCEPT !.ui_pc = "cpu"]
    /\ UNCHANGED <<acct, cpu_usage, gc, is_playing, bypass, params, bp, sink, drv, ctlVars>>

\* AudioAppManager::update: let cpu_usage = *self.cpu_usage.lock().unwrap();
\* the guard is a temporary of the statement.
FrameReadCpu ==
    /\ mutex.ui_pc = "cpu"
    /\ \/ /\ mutex.cpu_usage = "none"
          /\ mutex' = [mutex EXCEPT !.cpu_usage = "ui"]
       \/ /\ mutex.cpu_usage = "ui"
          /\ mutex' = [mutex EXCEPT !.cpu_usage = "none", !.ui_pc = "buttons"]
    /\ UNCHANGED <<acct, cpu_usage, gc, is_playing, bypass, params, bp, sink, drv, ctlVars>>

\* AudioApp::update, Stop button and Bypass checkbox: a click on Stop stores
\* is_playing = false and goes on to dsp.stop(); the checkbox may store bypass.
FrameButtons ==
    /\ mutex.ui_pc = "buttons"
    /\ \/ /\ is_playing' = [is_playing EXCEPT ![current_audio_app] = FALSE]
          /\ bp' = MarkStop(current_audio_app, FALSE)
          /\ mutex' = [mutex EXCEPT !.ui_pc = "stop"]
          /\ UNCHANGED bypass
       \/ /\ \E v \in BOOLEAN : bypass' = [bypass EXCEPT ![current_audio_app] = v]
          /\ mutex' = [mutex EXCEPT !.ui_pc = "editor", !.ui_i = 1]
          /\ UNCHANGED <<is_playing, bp>>
    /\ UNCHANGED <<acct, cpu_usage, gc, params, sink, drv, ctlVars>>

\* DspProcessor::stop: self.sink.lock().unwrap().stop();
FrameStop ==
    /\ mutex.ui_pc = "stop"
    /\ \/ /\ mutex.sink = "none"
          /\ mutex' = [mutex EXCEPT !.sink = "ui"]
          /\ sink' = sink
       \/ /\ mutex.sink = "ui"
          /\ sink' = SinkStopped(app[current_audio_app].dsp_processor)
          /\ mutex' = [mutex EXCEPT !.sink = "none", !.ui_pc = "editor", !.ui_i = 1]
    /\ UNCHANGED <<acct, cpu_usage, gc, is_playing, bypass, params, bp, drv, ctlVars>>

\* Parameter editor, one parameter: lock, show the widget on the guarded value,
\* drop the guard at the end of the iteration. The frames followed here are those
\* in which the user leaves the slider where it is: no lock step reads a value.
FrameEditor ==
    /\ mutex.ui_pc = "editor"
    /\ LET i == mutex.ui_i
       IN \/ /\ mutex.param[i] = "none"
             /\ mutex' = [mutex EXCEPT !.param[i] = "ui"]
          \/ /\ mutex.param[i] = "ui"
             /\ mutex' = [EditorGuardDropped(i) EXCEPT
                             !.ui_pc = IF i = NumParams THEN "idle" ELSE "editor",
                             !.ui_i = IF i = NumParams THEN 0 ELSE i + 1]
    /\ UNCHANGED <<acct, cpu_usage, gc, is_playing, bypass, params, bp, sink, drv, ctlVars>>

\* The steps of a frame once it has begun.
FrameStep == FrameReadCpu \/ FrameButtons \/ FrameStop \/ FrameEditor

\* thread::spawn(move || { sink.lock().unwrap().play();
LkDrvPlay(s) ==
    /\ drv[s] = "start"
    /\ \/ /\ mutex.sink = "none"
          /\ mutex' = [mutex EXCEPT !.sink = "driver"]
          /\ drv' = drv
       \/ /\ mutex.sink = "driver"
          /\ mutex' = [mutex EXCEPT !.sink = "none"]
          /\ drv' = [drv EXCEPT ![s] = "check"]
    /\ UNCHANGED <<acct, cpu_usage, gc, is_playing, bypass, params, bp, sink, ctlVars>>

\* while is_playing.load(Ordering::SeqCst) && ...: the left operand
LkDrvLoad(s) ==
    /\ drv[s] = "check"
    /\ drv' = [drv EXCEPT ![s] = IF is_playing[bp[s].app] THEN "empty" ELSE "exit"]
    /\ UNCHANGED <<mutex, acct, cpu_usage, gc, is_playing, bypass, params, bp, sink, ctlVars>>

\* ... && !sink.lock().unwrap().empty(): the guard is a temporary of the condition
LkDrvEmpty(s) ==
    /\ drv[s] = "empty"
    /\ \/ /\ mutex.sink = "none"
          /\ mutex' = [mutex EXCEPT !.sink = "driver"]
          /\ drv' = drv
       \/ /\ mutex.sink = "driver"
          /\ mutex' = [mutex EXCEPT !.sink = "none", !.drv_i = 0]
          /\ drv' = [drv EXCEPT ![s] = IF sink[s].pending THEN "body" ELSE "exit"]
    /\ UNCHANGED <<acct, cpu_usage, gc, is_playing, bypass, params, bp, sink, ctlVars>>

\* if !bypass.load(Ordering::SeqCst) { ... }; with bypass set the iteration goes
\* on to the update of the locals.
LkDrvBody(s) ==
    /\ drv[s] = "body"
    /\ IF bypass[bp[s].app]
       THEN /\ \E elapsed \in 0..MaxTick :
                  acct' = [acct EXCEPT ![s] =
                              Accumulate(acct[s], bp[s].block_size, elapsed, TRUE)]
            /\ drv' = [drv EXCEPT ![s] = "publish"]
       ELSE /\ drv' = [drv EXCEPT ![s] = "params"]
            /\ acct' = acct
    /\ UNCHANGED <<mutex, cpu_usage, gc, is_playing, bypass, params, bp, sink, ctlVars>>

\* params.iter().map(|p| p.lock().unwrap().clone()).collect(): the guard is a
\* temporary of the closure body, one parameter at a time.
LkDrvParam(s) ==
    /\ drv[s] = "params"
    /\ LET i == mutex.drv_i + 1
       IN \/ /\ mutex.param[i] = "none"
             /\ mutex' = [mutex EXCEPT !.param[i] = "driver"]
             /\ drv' = drv
          \/ /\ mutex.param[i] = "driver"
             /\ mutex' = [mutex EXCEPT !.param[i] = "none",
                                       !.drv_i = IF i = NumParams THEN 0 ELSE i]
             /\ drv' = [drv EXCEPT ![s] = IF i = NumParams THEN "call" ELSE "params"]
    /\ UNCHANGED <<acct, cpu_usage, gc, is_playing, bypass, params, bp, sink, ctlVars>>

\* (process_fn)(&mut buffer, &param_values); then
\* processing_time += dsp_start.elapsed().as_secs_f32(); total_elapsed += block_duration;
LkDrvCall(s) ==
    /\ drv[s] = "call"
    /\ \E elapsed \in 0..MaxTick :
          acct' = [acct EXCEPT ![s] =
                      Accumulate(acct[s], bp[s].block_size, elapsed, FALSE)]
    /\ drv' = [drv EXCEPT ![s] = "publish"]
    /\ UNCHANGED <<mutex, cpu_usage, gc, is_playing, bypass, params, bp, sink, ctlVars>>

\* if total_elapsed > 0.0 { ... let mut cpu_usage_lock = cpu_usage.lock().unwrap();
\* *cpu_usage_lock = dsp_cpu_usage; }  the guard is dropped at the end of the if
\* block, before the sleep.
LkDrvPublish(s) ==
    /\ drv[s] = "publish"
    /\ \/ /\ acct[s].total_elapsed > 0 /\ mutex.cpu_usage = "none"
          /\ mutex' = [mutex EXCEPT !.cpu_usage = "driver"]
          /\ UNCHANGED <<cpu_usage, drv>>
       \/ /\ acct[s].total_elapsed > 0 /\ mutex.cpu_usage = "driver"
          /\ LET c == CpuUsageOf(acct[s])
             IN cpu_usage' = [num |-> c.num, den |-> c.den, writer |-> s]
          /\ mutex' = [mutex EXCEPT !.cpu_usage = "none"]
          /\ drv' = [drv EXCEPT ![s] = "sleep"]
       \/ /\ acct[s].total_elapsed = 0
          /\ drv' = [drv EXCEPT ![s] = "sleep"]
          /\ UNCHANGED <<cpu_usage, mutex>>
    /\ UNCHANGED <<acct, gc, is_playing, bypass, params, bp, sink, ctlVars>>

\* after the loop: sink.lock().unwrap().stop(); the thread ends
LkDrvStop(s) ==
    /\ drv[s] = "exit"
    /\ \/ /\ mutex.sink = "none"
          /\ mutex' = [mutex EXCEPT !.sink = "driver"]
          /\ UNCHANGED <<sink, drv>>
       \/ /\ mutex.sink = "driver"
          /\ sink' = [sink EXCEPT ![s].stopped = TRUE]
          /\ mutex' = [mutex EXCEPT !.sink = "none"]
          /\ drv' = [drv EXCEPT ![s] = "done"]
    /\ UNCHANGED <<acct, cpu_usage, gc, is_playing, bypass, params, bp, ctlVars>>

\* The steps of the driver thread of session s.
LkDriverStep(s) ==
    \/ LkDrvPlay(s) \/ LkDrvLoad(s) \/ LkDrvEmpty(s) \/ LkDrvBody(s)
    \/ LkDrvParam(s) \/ LkDrvCall(s) \/ LkDrvPublish(s) \/ DrvSleep(s) \/ LkDrvStop(s)

\* process_buffer(): self.params.iter().map(|p| p.lock().unwrap().clone()): lock
\* the next parameter, then clone it and drop the guard.
LkBPSnap(s) ==
    /\ bp[s].pc = "snap"
    /\ LET b == bp[s]
           i == Len(b.snap) + 1
       IN \/ /\ mutex.param[i] = "none"
             /\ mutex' = [mutex EXCEPT !.param[i] = "audio"]
             /\ bp' = bp
          \/ /\ mutex.param[i] = "audio"
             /\ mutex' = [mutex EXCEPT !.param[i] = "none"]
             /\ bp' = [bp EXCEPT ![s] =
                          [b EXCEPT !.snap = Append(b.snap, params[b.app][i]),
                                    !.pc = IF i = NumParams THEN "xform" ELSE "snap"]]
    /\ UNCHANGED <<acct, cpu_usage, gc, is_playing, bypass, params, sink, drv, ctlVars>>

\* The steps of the audio thread of session s.
LkAudioStep(s) == AudioPoll(s) \/ LkBPSnap(s) \/ BPXform(s)

\* One session as load_audio leaves it on a non-empty file, with the block size
\* and the bypass flag AudioApp::new sets; the controller is between two frames.
InitLocks ==
    /\ is_playing = <<TRUE>>
    /\ bypass = <<FALSE>>
    /\ params = <<InitialParams>>
    /\ \E len \in 1..MaxLen : bp = <<NewBlockProcessor(1, len, DefaultBlockSize)>>
    /\ sink = <<NewSink>>
    /\ drv = <<"start">>
    /\ app = <<[NewApp(TRUE) EXCEPT !.dsp_processor = 1]>>
    /\ current_audio_app = 1
    /\ ctl = Idle
    /\ store_hist = <<{InitialParams}>>
    /\ ui_events = 0
    /\ acct = <<NewAcct>>
    /\ cpu_usage = InitialCpuUsage
    /\ gc = NoGain
    /\ mutex = NoLocks

NextLocks ==
    \/ FrameBegin
    \/ FrameReadCpu
    \/ FrameButtons
    \/ FrameStop
    \/ FrameEditor
    \/ \E s \in 1..Len(bp) : LkDrvPlay(s) \/ LkDrvLoad(s) \/ LkDrvEmpty(s)
    \/ \E s \in 1..Len(bp) : LkDrvBody(s) \/ LkDrvParam(s) \/ LkDrvCall(s)
    \/ \E s \in 1..Len(bp) : LkDrvPublish(s) \/ DrvSleep(s) \/ LkDrvStop(s)
    \/ \E s \in 1..Len(bp) : AudioPoll(s) \/ LkBPSnap(s) \/ BPXform(s)

SpecLocks == InitLocks /\ [][NextLocks]_vars

\* The same under a scheduler that lets every thread run and a Mutex that does
\* not pass a waiter over forever: a frame, once begun, runs to its end; the
\* driver thread and the audio thread are not starved. A context that has dropped
\* a guard locks the same Mutex again only a frame, a sleep or a block later, so
\* a waiter that finds the Mutex free again and again does get it.
FairLocks ==
    /\ SpecLocks
    /\ SF_vars(FrameStep)
    /\ SF_vars(LkDriverStep(1))
    /\ SF_vars(LkAudioStep(1))

\* ------------------------------------------------------------------ claims
\* C1: with is_playing true and bypass false throughout, a streamer that has
\* reached end of stream has yielded all L source samples in source order, every
\* one of them transformed, in ceil(L/B) invocations: the first ones on B samples,
\* the last on L mod B samples (B when B divides L).
C1_BlockPartition ==
    \A s \in 1..Len(bp) :
        LET b == bp[s]
            L == b.input_len
            B == b.block_size
            n == (L + B - 1) \div B
        IN (~bypass[b.app] /\ b.ret = "None") =>
              /\ b.yielded = L
              /\ b.in_order
              /\ b.xf_out = L
              /\ Len(b.inv_sizes) = n
              /\ \A i \in 1..n :
                    b.inv_sizes[i] = IF i < n \/ L % B = 0 THEN B ELSE L % B

C1_Witness ==
    \E s \in 1..Len(bp) :
        /\ ~bypass[bp[s].app] /\ bp[s].ret = "None"
        /\ bp[s].block_size = 4096 /\ bp[s].input_len = 10000
        /\ bp[s].inv_sizes = <<4096, 4096, 1808>>
        /\ bp[s].yielded = 10000

\* C7: with bypass true throughout (and is_playing true), the streamer never
\* invokes the transformation and what it yields is the source, sample for
\* sample: in order, untransformed, and complete at end of stream.
C7_BypassIdentity ==
    \A s \in 1..Len(bp) :
        LET b == bp[s]
        IN bypass[b.app] =>
              /\ b.inv_sizes = <<>> /\ b.samples_processed = 0
              /\ b.xf_out = 0 /\ b.in_order
              /\ b.ret = "None" => b.yielded = b.input_len

C7_Witness ==
    \E s \in 1..Len(bp) :
        /\ bypass[bp[s].app] /\ bp[s].ret = "None"
        /\ bp[s].input_len > bp[s].block_size
        /\ bp[s].yielded = bp[s].input_len

\* The driver thread of session s is inside its while loop.
InLoop(s) == drv[s] \in {"body", "sleep"}

\* C2: at most one driver thread spawned by DspProcessor::process is inside its
\* loop at any time, whatever sequence of Play, Stop and Switch is handled.
C2_SingleDriver ==
    Cardinality({s \in 1..Len(drv) : InLoop(s)}) <= 1

\* C3: when the driver thread of a session has been spawned, every earlier
\* session that has not ended by itself has had DspProcessor::stop called on it.
C3_OldStoppedFirst ==
    \A t \in 1..Len(drv) :
        drv[t] # "none" =>
            \A s \in 1..(t - 1) : sink[s].stop_called \/ drv[s] = "done"

\* C4: once DspProcessor::stop has been called on a session, the next evaluation
\* of its driver's loop condition ends the loop, whatever the controller has done
\* in between.
C4_StopExitsDriver ==
    [][\A s \in 1..Len(drv) :
          (sink[s].stop_called /\ drv[s] = "check" /\ drv'[s] # "check")
             => drv'[s] = "exit"]_vars

\* C5: a call of next() that begins while is_playing is false returns None,
\* whatever is left of the current block, and neither pulls from upstream nor
\* invokes the transformation nor yields.
C5_StoppedYieldsNothing ==
    [][\A s \in 1..Len(bp) :
          (/\ s <= Len(bp')
           /\ bp[s].pc = "ready" /\ ~is_playing[bp[s].app]
           /\ bp'[s] # bp[s] /\ is_playing' = is_playing)
          => /\ bp'[s].ret = "None" /\ bp'[s].pc = "ready"
             /\ bp'[s].yielded = bp[s].yielded
             /\ bp'[s].block_pos = bp[s].block_pos
             /\ bp'[s].input_pos = bp[s].input_pos
             /\ bp'[s].inv_sizes = bp[s].inv_sizes]_vars

C5_Witness ==
    \E s \in 1..Len(bp) :
        /\ ~is_playing[bp[s].app] /\ bp[s].ret = "None"
        /\ bp[s].block_pos > 0 /\ bp[s].block_pos < bp[s].block_len
        /\ bp[s].input_pos < bp[s].input_len

\* C6: once next() has returned None, no later call of next() on the same
\* streamer yields a sample, whatever is written to is_playing and bypass.
C6_DrainedTerminal ==
    [][\A s \in 1..Len(bp) :
          (s <= Len(bp') /\ bp[s].drained) => bp'[s].yielded = bp[s].yielded]_vars

\* C8: the bypass decision is taken once per block, when the block is filled,
\* and every sample of the block is yielded according to it, however bypass is
\* written while the block is drained.
C8_DecisionPerBlock ==
    \A s \in 1..Len(bp) :
        (bp[s].pc = "ready" /\ bp[s].yielded > 0)
           => /\ bp[s].last.xf = ~bp[s].bypass_seen
              /\ bp[s].block_xf = ~bp[s].bypass_seen

\* a transformed sample yielded from the middle of a block while bypass was on
C8_Witness ==
    \E s \in 1..Len(bp) :
        /\ bp[s].ret = "Some" /\ bp[s].block_pos > 1
        /\ bp[s].last.xf /\ bp[s].last.live

C10_ConsistentSnapshot ==
    \A s \in 1..Len(bp) :
        bp[s].inv_params # <<>> => bp[s].inv_params \in store_hist[bp[s].app]

\* C11: every parameter is cloned, at its value of that moment, before process_fn
\* is called; the call gets exactly these clones, so a parameter written while
\* the call is in progress (no lock is held then) does not reach this invocation;
\* it is what the clone of the next invocation reads.
C11_SnapshotBeforeCall ==
    [][\A s \in 1..Len(bp) :
          LET b == bp[s]
              c == bp'[s]
          IN /\ (b.pc = "snap" /\ c # b)
                   => c.snap = Append(b.snap, params[b.app][Len(b.snap) + 1])
             /\ (b.pc = "xform" /\ params' # params) => c = b
             /\ (b.pc = "xform" /\ c # b)
                   => /\ Len(b.snap) = NumParams
                      /\ c.inv_params = b.snap
                      /\ Len(c.inv_sizes) = Len(b.inv_sizes) + 1]_vars

\* the second invocation is in progress on clones that differ from those of the
\* first (an edit made since has reached it) and the store has been edited again
C11_Witness ==
    \E s \in 1..Len(bp) :
        /\ bp[s].pc = "xform" /\ Len(bp[s].inv_sizes) = 1
        /\ bp[s].snap # bp[s].inv_params
        /\ bp[s].snap # params[bp[s].app]

\* C12: a driver all of whose iterations so far have read bypass as true has
\* added nothing to processing_time, and the cpu_usage it has published is 0.
C12_BypassNoCpu ==
    \A s \in 1..Len(acct) :
        (acct[s].iters > 0 /\ acct[s].all_bypassed)
           => /\ acct[s].processing_time = 0
              /\ cpu_usage.writer = s => cpu_usage.num = 0

\* C13: a construction failure inside DspProcessor::new comes back to load_audio
\* as a failure value: the controller is never brought down by it and goes on
\* handling events.
C13_FailureSurfaced == ctl.pc # "panicked"

\* The upstream source of session s is used up and so is the last block.
Exhausted(s) ==
    /\ bp[s].pc = "ready"
    /\ bp[s].input_pos = bp[s].input_len
    /\ bp[s].block_pos >= bp[s].block_len

\* C14: once the source of a session is exhausted and nobody has asked the
\* session to stop, its driver thread eventually ends (having seen the sink
\* empty and stopped it), unless a stop is requested first.
C14_NaturalEnd ==
    \A s \in 1..MaxSessions :
        (s <= Len(bp) /\ Exhausted(s) /\ ~sink[s].stop_called)
           ~> (s <= Len(bp) /\ (drv[s] = "done" \/ sink[s].stop_called))

\* C15 as stated: after process_fn the buffer has its length, every sample is
\* exactly clamp(s * g, INT16_MIN, INT16_MAX), and a gain of 1.0 changes nothing.
C15_GainClampExact ==
    gc.done =>
        LET g == GainOf(gc.state)
        IN /\ Len(gc.buffer) = Len(gc.input)
           /\ \A i \in 1..Len(gc.input) :
                 gc.buffer[i] * g.den
                    = Clamp(gc.input[i] * g.num, Int16Min * g.den, Int16Max * g.den)
           /\ g.num = g.den => gc.buffer = gc.input

\* C15, amended: after process_fn the buffer has its length, every sample is
\* clamp(s * g, INT16_MIN, INT16_MAX) with its fractional part dropped (rounded
\* toward zero), and a gain of 1.0 changes nothing.
C15_GainClampTrunc ==
    gc.done =>
        LET g == GainOf(gc.state)
        IN /\ Len(gc.buffer) = Len(gc.input)
           /\ \A i \in 1..Len(gc.input) :
                 LET c == Clamp(gc.input[i] * g.num, Int16Min * g.den,
                                Int16Max * g.den)
                     r == gc.buffer[i] * g.den
                 IN /\ gc.buffer[i] \in Int16
                    /\ IF c >= 0 THEN r <= c /\ c - r < g.den
                                 ELSE r >= c /\ r - c < g.den
           /\ g.num = g.den => gc.buffer = gc.input

\* gain 1.5 on <<32767, -3>>: the first sample is clamped, the second truncated
C15_Witness ==
    /\ gc.done /\ gc.state = <<Number(3, 2)>>
    /\ gc.input = <<Int16Max, -3>> /\ gc.buffer = <<Int16Max, -4>>

\* C16: at every point of the stream the BlockProcessor reports the sample rate,
\* the channel count, the current frame length and the total duration of its
\* upstream source, and no step of the streamer changes the source's rate,
\* channel count or length.
C16_MetadataForwarded ==
    /\ [](\A s \in 1..Len(bp) :
            /\ BPSampleRate(bp[s]) = bp[s].sample_rate
            /\ BPChannels(bp[s]) = bp[s].channels
            /\ BPCurrentFrameLen(bp[s]) = bp[s].input_len - bp[s].input_pos
            /\ BPTotalDuration(bp[s])
                  = [samples |-> bp[s].input_len,
                     per_second |-> bp[s].sample_rate * bp[s].channels])
    /\ [][\A s \in 1..Len(bp) :
            s <= Len(bp') =>
               /\ bp'[s].sample_rate = bp[s].sample_rate
               /\ bp'[s].channels = bp[s].channels
               /\ bp'[s].input_len = bp[s].input_len]_vars

\* a mono 44100 Hz source, two blocks transformed and part of the third yielded
C16_Witness ==
    \E s \in 1..Len(bp) :
        /\ BPSampleRate(bp[s]) = 44100 /\ BPChannels(bp[s]) = 1
        /\ Len(bp[s].inv_sizes) = 3 /\ bp[s].block_pos < bp[s].block_len
        /\ BPCurrentFrameLen(bp[s]) = 0
        /\ BPTotalDuration(bp[s]).samples = bp[s].input_len

\* C17: the streamer pulls from upstream only when every sample pulled before
\* has been yielded; while a block is being transformed none of its samples is
\* out, and a sample is yielded only from a block whose transformation (when
\* not bypassed) is complete; the output is the source in source order, so
\* every sample of block N precedes every sample of block N+1.
C17_BlocksInOrder ==
    /\ [](\A s \in 1..Len(bp) :
            /\ bp[s].in_order
            /\ bp[s].input_pos = bp[s].block_start + bp[s].block_len
            /\ bp[s].pc = "ready"
                  => bp[s].yielded = bp[s].block_start + bp[s].block_pos
            /\ bp[s].pc # "ready"
                  => bp[s].yielded = bp[s].block_start /\ ~bp[s].block_xf)
    /\ [][\A s \in 1..Len(bp) :
            s <= Len(bp') =>
               /\ bp'[s].input_pos # bp[s].input_pos
                     => bp[s].yielded = bp[s].input_pos
               /\ bp'[s].yielded > bp[s].yielded
                     => /\ bp'[s].yielded = bp[s].yielded + 1
                        /\ bp'[s].last.idx = bp'[s].yielded
                        /\ bp'[s].block_xf \/ bp'[s].bypass_seen
                        /\ bp'[s].last.xf = bp'[s].block_xf]_vars

\* inside the second block, both blocks transformed, after a stop and a restart
C17_Witness ==
    \E s \in 1..Len(bp) :
        /\ Len(bp[s].inv_sizes) = 2 /\ bp[s].block_start = bp[s].block_size
        /\ bp[s].block_pos > 0 /\ bp[s].block_pos < bp[s].block_len
        /\ bp[s].drained /\ bp[s].ret = "Some" /\ bp[s].in_order

C19_CpuUsageCell ==
    /\ [](/\ GetCpuUsage.num >= 0 /\ GetCpuUsage.den > 0
          /\ IF cpu_usage.writer = 0
             THEN GetCpuUsage = [num |-> 0, den |-> 1]
             ELSE /\ cpu_usage.writer \in 1..Len(acct)
                  /\ acct[cpu_usage.writer].iters > 0
                  /\ GetCpuUsage
                       = [num |-> acct[cpu_usage.writer].processing_time * 100,
                          den |-> acct[cpu_usage.writer].total_elapsed])
    /\ [][cpu_usage' # cpu_usage
            => \E s \in 1..Len(drv) :
                  /\ drv[s] = "body" /\ drv'[s] = "sleep"
                  /\ cpu_usage'.writer = s]_vars

\* two drivers have published; the value read is the one driver 1 wrote last
C19_Witness ==
    /\ Len(acct) = 2 /\ acct[1].iters > 0 /\ acct[2].iters > 0
    /\ acct[2].processing_time = 0
    /\ cpu_usage.writer = 1 /\ GetCpuUsage.num > 0

\* C20: every session has one of the five block sizes, the default one when the
\* Block Size dropdown of its AudioApp was never used; a session is created with
\* the size selected at that moment and keeps it: a later selection changes no
\* session that exists.
C20_BlockSizeFixed ==
    /\ [](\A s \in 1..Len(bp) :
            /\ bp[s].block_size \in available_block_sizes
            /\ ~app[bp[s].app].size_changed => bp[s].block_size = DefaultBlockSize)
    /\ [][/\ \A s \in 1..Len(bp) : bp'[s].block_size = bp[s].block_size
          /\ Len(bp') > Len(bp)
                => bp'[Len(bp')].block_size
                      = app[current_audio_app].selected_block_size]_vars

\* the first session keeps 4096 while the one started after a selection has 16384
C20_Witness ==
    /\ Len(bp) = 2 /\ bp[1].app = bp[2].app
    /\ bp[1].block_size = DefaultBlockSize /\ bp[2].block_size = 16384
    /\ app[bp[2].app].size_changed
    /\ drv[1] \in {"body", "sleep"} /\ acct[1].total_elapsed = DefaultBlockSize

\* C21: while load_audio is between DspProcessor::new (streamer appended to the
\* sink) and is_playing.store(true), the streamer of the new session on a
\* non-empty source has not reported end-of-stream: the audio thread cannot
\* have polled it while is_playing was still false.
C21_StartDeliversAll ==
    \A s \in 1..Len(bp) :
        (ctl.pc = "la_store" /\ ctl.new = s /\ bp[s].input_len > 0)
           => ~bp[s].drained

\* Context c has called lock() on a Mutex and does not own it yet.
Waiting(c) ==
    IF c = "ui"
    THEN \/ mutex.ui_pc = "cpu" /\ mutex.cpu_usage # "ui"
         \/ mutex.ui_pc = "stop" /\ mutex.sink # "ui"
         \/ mutex.ui_pc = "editor" /\ mutex.param[mutex.ui_i] # "ui"
    ELSE IF c = "driver"
    THEN \/ drv[1] \in {"start", "empty", "exit"} /\ mutex.sink # "driver"
         \/ drv[1] = "params" /\ mutex.param[mutex.drv_i + 1] # "driver"
         \/ drv[1] = "publish" /\ acct[1].total_elapsed > 0 /\ mutex.cpu_usage # "driver"
    ELSE bp[1].pc = "snap" /\ mutex.param[Len(bp[1].snap) + 1] # "audio"

\* No context owns two Mutexes at once; the driver owns none while it sleeps or
\* runs process_fn, the streamer owns none while it runs process_fn.
LockDiscipline ==
    /\ \A c \in Contexts : HeldCount(c) <= 1
    /\ drv[1] \in {"call", "sleep"} => HeldCount("driver") = 0
    /\ bp[1].pc = "xform" => HeldCount("audio") = 0

\* C22: the system is deadlock-free: no context ever locks a second Mutex while
\* it owns one, no Mutex is owned across the sleep or a process_fn call, and
\* every context that waits for a Mutex comes to own it.
C22_DeadlockFree ==
    /\ []LockDiscipline
    /\ \A c \in Contexts : Waiting(c) ~> ~Waiting(c)

\* the streamer waits for a parameter the editor has locked while the driver
\* owns the cpu_usage cell
C22_Witness ==
    /\ Waiting("audio") /\ mutex.param[Len(bp[1].snap) + 1] = "ui"
    /\ mutex.cpu_usage = "driver"

\* The step completes a call of next() on streamer s that returns Some(sample).
NextReturnsSome(s) ==
    /\ bp'[s].pc = "ready" /\ bp'[s].ret = "Some"
    /\ bp'[s].yielded = bp[s].yielded + 1

\* What every step of streamer s does to block and block_pos: a call that
\* returns Some(sample) leaves block_pos one higher on the same block, or at 1 on
\* a block filled in that call; no step installs an empty block.
PositionStep(s) ==
    /\ NextReturnsSome(s) =>
          \/ /\ bp[s].pc = "ready"
             /\ bp'[s].block_start = bp[s].block_start
             /\ bp'[s].block_len = bp[s].block_len
             /\ bp'[s].block_pos = bp[s].block_pos + 1
          \/ /\ bp'[s].block_start = bp'[s].input_pos - bp'[s].block_len
             /\ bp'[s].block_start = bp[s].block_start + (IF bp[s].pc = "ready"
                                                          THEN bp[s].block_len ELSE 0)
             /\ bp'[s].block_len > 0
             /\ bp'[s].block_pos = 1
    /\ (bp'[s].block_start # bp[s].block_start \/ bp'[s].block_len # bp[s].block_len)
          => bp'[s].block_len > 0

\* C23 as stated: in every state of a BlockProcessor, the states inside a call
\* of next() included, 0 <= block_pos <= block.len() <= block_size; each
\* successful next() increases block_pos by one or resets it to 1 on a freshly
\* filled non-empty block; an empty block is never installed.
C23_PositionAlways ==
    /\ [](\A s \in 1..Len(bp) :
             /\ 0 <= bp[s].block_pos
             /\ bp[s].block_pos <= bp[s].block_len
             /\ bp[s].block_len <= bp[s].block_size)
    /\ [][\A s \in 1..Len(bp) : PositionStep(s)]_vars

\* C23, amended: 0 <= block_pos and block.len() <= block_size in every state,
\* and block_pos <= block.len() whenever no call of next() is in progress (inside
\* a refilling call block_pos still holds the length of the previous block until
\* process_buffer has returned); each successful next() increases block_pos by
\* one or resets it to 1 on a freshly filled non-empty block; an empty block is
\* never installed.
C23_PositionBetweenCalls ==
    /\ [](\A s \in 1..Len(bp) :
             /\ 0 <= bp[s].block_pos
             /\ bp[s].block_len <= bp[s].block_size
             /\ bp[s].pc = "ready" => bp[s].block_pos <= bp[s].block_len
             /\ bp[s].block_len = 0 => bp[s].input_pos = 0 /\ bp[s].yielded = 0)
    /\ [][\A s \in 1..Len(bp) : PositionStep(s)]_vars

\* a full block has been consumed to its end, and the first sample of the
\* trailing partial block that replaced it has been returned
C23_Witness ==
    \E s \in 1..Len(bp) :
        /\ bp[s].pc = "ready" /\ bp[s].ret = "Some"
        /\ bp[s].block_pos = 1
        /\ bp[s].block_start >= bp[s].block_size
        /\ bp[s].block_len = PartialLen /\ bp[s].block_len < bp[s].block_size
====
